---- MODULE Spec2Model ----
(***************************************************************************)
(* Model of src/src/TheNextWeek/main.cc: the recursive integrator          *)
(* ray_color, the per-pixel sampling loop and the OpenMP render loop of     *)
(* main with its lock-protected writes into the shared pixel buffer.        *)
(*                                                                          *)
(* Three specifications share the module:                                   *)
(*   RaySpec     one call of ray_color, executed statement by statement,    *)
(*               with every hit/miss and scatter/decline outcome;           *)
(*   SampleSpec  the sample loop of one pixel (lines 457-463) with the      *)
(*               image-plane coordinates u, v kept as exact fractions;      *)
(*   Spec        main: scene selection, the scanline loop, the workers of   *)
(*               the parallel for, the lock, the buffer and the encoder.    *)
(* Colors are triples of integers; where a color is converted to a byte a   *)
(* channel value c stands for the real c / ColorScale.                      *)
(***************************************************************************)
EXTENDS Integers, Sequences, FiniteSets, TLC

VARIABLES
    frames, sp,                       \* ray_color: activation records, stack top
    smp,                              \* sample loop of one pixel
    pcMain, world, background, j,     \* main
    todo, pc, pix, s, acc, k,         \* workers of the parallel for
    m_lock, buffer, writers, oob, png, \* shared lock, pixel buffer, encoder input
    rad                               \* the sampled radiance values of the run

rayVars    == <<frames, sp>>
sampleVars == <<smp>>
renderVars == <<pcMain, world, background, j, todo, pc, pix, s, acc, k,
                m_lock, buffer, writers, oob, png, rad>>
vars       == <<rayVars, sampleVars, renderVars>>

----------------------------------------------------------------------------
(* Bounds of the model. *)

\* largest depth argument given to ray_color in RaySpec (main passes 30)
MaxDepth == 3
\* image width used by the model (main uses 300)
image_width == 2
\* samples per pixel used by the model (main uses 500)
samples_per_pixel == 2
\* number of threads in the OpenMP team
NumThreads == 2
\* random_double() is drawn from {0/JitterDen, .., (JitterDen-1)/JitterDen}
JitterDen == 4
\* number of distinct tables of sampled radiance values
NumTables == 1

----------------------------------------------------------------------------
(* Colors: vec3 arithmetic used by ray_color and the render loop. *)

Black == <<0, 0, 0>>

Add(a, b) == [c \in 1..3 |-> a[c] + b[c]]

Mul(a, b) == [c \in 1..3 |-> a[c] * b[c]]

Max(a, b) == IF a >= b THEN a ELSE b

----------------------------------------------------------------------------
(* Scenes: what each scene function returns, as the list of the kinds of    *)
(* its top-level objects.                                                   *)

HittableList(objs) == [kind |-> "hittable_list", objects |-> objs]

EmptyWorld == HittableList(<<>>)

random_scene == HittableList(<<"bvh_node">>)

two_spheres == HittableList(<<"sphere", "sphere">>)

two_perlin_spheres == HittableList(<<"sphere", "sphere">>)

earth == HittableList(<<"sphere">>)

simple_light == HittableList(<<"sphere", "sphere", "sphere", "xy_rect">>)

cornell_box ==
    HittableList(<<"flip_face", "yz_rect", "xz_rect", "flip_face", "xz_rect",
                   "flip_face", "translate", "translate">>)

cornell_balls ==
    HittableList(<<"flip_face", "yz_rect", "xz_rect", "flip_face", "xz_rect",
                   "flip_face", "sphere", "constant_medium", "translate">>)

cornell_smoke ==
    HittableList(<<"flip_face", "yz_rect", "xz_rect", "flip_face", "xz_rect",
                   "flip_face", "constant_medium", "constant_medium">>)

cornell_final ==
    HittableList(<<"flip_face", "yz_rect", "xz_rect", "flip_face", "xz_rect",
                   "flip_face", "translate", "constant_medium">>)

final_scene ==
    HittableList(<<"bvh_node", "xz_rect", "moving_sphere", "sphere", "sphere",
                   "sphere", "constant_medium", "constant_medium", "sphere",
                   "sphere", "translate">>)

\* the constant of `switch (8)`
SceneSelector == 8

Sky == <<7, 8, 10>>

\* the switch of main: the world it assigns (default falls into case 6)
SceneWorld(sel) ==
    CASE sel = 1 -> random_scene
      [] sel = 2 -> two_spheres
      [] sel = 3 -> two_perlin_spheres
      [] sel = 4 -> earth
      [] sel = 5 -> simple_light
      [] sel = 7 -> cornell_balls
      [] sel = 8 -> cornell_smoke
      [] sel = 9 -> cornell_final
      [] sel = 10 -> final_scene
      [] OTHER -> cornell_box

\* the switch of main: the background it leaves (black unless cases 1-4)
SceneBackground(sel) == IF sel \in 1..4 THEN Sky ELSE Black

\* hittable_list::hit can report a hit only if the list holds an object
WorldCanHit(w) == Len(w.objects) > 0

----------------------------------------------------------------------------
(* ray_color (lines 32-51), one statement per action.                       *)
(* frames is the sequence of activation records ever created, frames[sp]    *)
(* the running one; a record stays in frames after its call returned, with  *)
(* its return value, so the whole call chain can be inspected.              *)

\* emission values a material may return from emitted(u, v, p)
Emissions == {Black, <<7, 7, 7>>}

\* attenuation values a material may produce when it scatters
Attenuations == {<<1, 1, 1>>, <<0, 1, 2>>}

Backgrounds == {Black, Sky}

Worlds == {EmptyWorld, SceneWorld(SceneSelector)}

NewFrame(r, bg, w, d) ==
    [ray |-> r, background |-> bg, world |-> w, depth |-> d,
     pc |-> "depth_check",
     isHit |-> FALSE, emitted |-> Black,
     didScatter |-> FALSE, attenuation |-> Black, scattered |-> r,
     child |-> Black, ret |-> Black,
     nHit |-> 0, nEmitted |-> 0, nScatter |-> 0]

\* mutant: the depth test lets depth 0 through
DepthExhaustedStrict(depth) == depth < 0

\* line 36: the bounce budget is exhausted
DepthExhausted(depth) == depth <= 0

\* mutant: a miss returns black instead of the background
MissValueBlack(f) == Black

\* line 41: the value returned when the ray hits nothing
MissValue(f) == f.background

\* mutant: the emission is dropped when the ray scatters
CombineNoEmission(emitted, attenuation, rec) == Mul(attenuation, rec)

\* line 50: emitted + attenuation * (value of the recursive call)
Combine(emitted, attenuation, rec) == Add(emitted, Mul(attenuation, rec))

\* mutant: the recursive call gets the same depth
NextDepthSame(depth) == depth

\* line 50: the depth given to the recursive call
NextDepth(depth) == depth - 1

\* the frame pushed by the recursive call of line 50
RecursiveFrame(f) ==
    NewFrame(f.scattered, f.background, f.world, NextDepth(f.depth))

\* `return v` of the running call, fs being the records as the call leaves
\* them: the value goes to the caller, which resumes inside the expression
\* of line 50
Return(fs, v) ==
    /\ frames' = [lvl \in 1..Len(fs) |->
                    IF lvl = sp THEN [fs[lvl] EXCEPT !.ret = v, !.pc = "returned"]
                    ELSE IF lvl = sp - 1
                         THEN [fs[lvl] EXCEPT !.child = v, !.pc = "combine"]
                         ELSE fs[lvl]]
    /\ sp' = sp - 1

Running(label) == sp >= 1 /\ frames[sp].pc = label

\* lines 36-37
RcDepthCheck ==
    /\ Running("depth_check")
    /\ IF DepthExhausted(frames[sp].depth)
       THEN Return(frames, Black)
       ELSE /\ frames' = [frames EXCEPT ![sp].pc = "world_hit"]
            /\ sp' = sp
    /\ UNCHANGED <<sampleVars, renderVars>>

\* lines 40-41: world.hit(r, 0.001, infinity, rec)
RcWorldHit ==
    /\ Running("world_hit")
    /\ LET fs == [frames EXCEPT ![sp].nHit = @ + 1]
       IN \E hit \in BOOLEAN :
            /\ hit => WorldCanHit(frames[sp].world)
            /\ IF ~hit
               THEN Return(fs, MissValue(frames[sp]))
               ELSE /\ frames' = [fs EXCEPT ![sp].isHit = TRUE,
                                            ![sp].pc = "emitted"]
                    /\ sp' = sp
    /\ UNCHANGED <<sampleVars, renderVars>>

\* line 45: rec.mat_ptr->emitted(rec.u, rec.v, rec.p)
RcEmitted ==
    /\ Running("emitted")
    /\ \E e \in Emissions :
         frames' = [frames EXCEPT ![sp].emitted = e, ![sp].nEmitted = @ + 1,
                                  ![sp].pc = "scatter"]
    /\ sp' = sp
    /\ UNCHANGED <<sampleVars, renderVars>>

\* lines 47-48: rec.mat_ptr->scatter(r, rec, attenuation, scattered)
RcScatter ==
    /\ Running("scatter")
    /\ LET fs == [frames EXCEPT ![sp].nScatter = @ + 1]
       IN \/ \* the material declines
             Return(fs, frames[sp].emitted)
          \/ \E a \in Attenuations :
               /\ frames' = [fs EXCEPT ![sp].didScatter = TRUE,
                                       ![sp].attenuation = a,
                                       ![sp].scattered = frames[sp].ray + 1,
                                       ![sp].pc = "recurse"]
               /\ sp' = sp
    /\ UNCHANGED <<sampleVars, renderVars>>

\* the call stack the model allows (never reached by the code as written)
MaxFrames == MaxDepth + 3

\* line 50: the recursive call
RcRecurse ==
    /\ Running("recurse")
    /\ Len(frames) < MaxFrames
    /\ frames' = Append([frames EXCEPT ![sp].pc = "await"],
                        RecursiveFrame(frames[sp]))
    /\ sp' = sp + 1
    /\ UNCHANGED <<sampleVars, renderVars>>

\* line 50: the recursive call has returned; add and return
RcCombine ==
    /\ Running("combine")
    /\ Return(frames, Combine(frames[sp].emitted, frames[sp].attenuation,
                              frames[sp].child))
    /\ UNCHANGED <<sampleVars, renderVars>>

RayDone == sp = 0

----------------------------------------------------------------------------
(* main, lines 347-362: image geometry, buffer and lock. *)

\* line 348: aspect_ratio = 1.0 / 1.0
aspect_ratio == 1

\* line 350
image_height == image_width \div aspect_ratio

\* line 357: bytes per pixel
n == 4

\* line 358
buffer_size == image_height * image_width * n

Threads == 0 .. NumThreads - 1

Columns == 0 .. image_width - 1

Rows == 0 .. image_height - 1

SampleIds == 0 .. samples_per_pixel - 1

\* a buffer byte that `new unsigned char[buffer_size]` left indeterminate
Uninit == 0 - 1

\* m_lock when no thread holds it
Unlocked == 0 - 1

\* mutant: the column is not scaled by the pixel size
BufferIndexNoStride(i, row, b) == n * image_width * row + i + b

\* lines 465-468: the buffer index of byte b of pixel (i, row)
BufferIndex(i, row, b) == n * image_width * row + i * n + b

\* line 468: the alpha byte
AlphaByte == 255

----------------------------------------------------------------------------
(* convert(value, samples_per_pixel): the byte of one channel.              *)
(* clamp(sqrt(value / sample_count), 0, 1) * 255, on channel values that    *)
(* stand for value = c / ColorScale.                                        *)

ColorScale == 4

RECURSIVE ISqrtIn(_, _, _)
\* the largest r in lo..hi with r * r <= x, given lo * lo <= x
ISqrtIn(x, lo, hi) ==
    IF lo >= hi THEN lo
    ELSE LET mid == (lo + hi + 1) \div 2
         IN IF mid * mid <= x THEN ISqrtIn(x, mid, hi)
                              ELSE ISqrtIn(x, lo, mid - 1)

convert(c, samples) ==
    IF c <= 0 THEN 0
    ELSE IF c >= ColorScale * samples THEN 255
    ELSE ISqrtIn((c * 255 * 255) \div (ColorScale * samples), 0, 255)

----------------------------------------------------------------------------
(* The sampled radiance values. ray_color draws random numbers, so the       *)
(* value of sample smpl of pixel (i, row) is an input of the run: rad holds  *)
(* one table of them, chosen when the run starts.                            *)

SampleKeys == Columns \X Rows \X SampleIds

SampleValue(tbl, key) ==
    <<(key[1] + key[3] + tbl) % (ColorScale + 1),
      (key[2] + 2 * key[3] + tbl) % (ColorScale + 1),
      (key[1] + 2 * key[2] + tbl * key[3]) % (ColorScale + 1)>>

RadTables ==
    {[key \in SampleKeys |-> SampleValue(tbl, key)] : tbl \in 0 .. NumTables - 1}

----------------------------------------------------------------------------
(* The render loop of main, lines 453-476. *)

\* mutant: the accumulator is not reset between iterations
StalePixelColor(prev) == prev

\* line 457: `color pixel_color;` of a new iteration, zero-initialised by
\* vec3's default constructor (prev: what the thread's previous iteration
\* left in its accumulator)
NewPixelColor(prev) == Black

\* line 462: pixel_color += ray_color(...)
Accumulate(sum, c) == Add(sum, c)

\* mutant: the scanline loop stops before row 0
ScanlineLoopTestSkipsLast(row) == row > 0

\* line 453: the loop test of the scanline loop
ScanlineLoopTest(row) == row >= 0

\* line 458: the loop test of the sample loop
SampleLoopTest(smpl) == smpl < samples_per_pixel

\* mutant: omp_set_lock does not wait
CanAcquireAlways(lock) == TRUE

\* line 464: omp_set_lock returns only when no thread holds the lock
CanAcquire(lock) == lock = Unlocked

\* lines 465-468: the value stored into byte b of the pixel
ByteValue(color, b) ==
    IF b = 3 THEN AlphaByte ELSE convert(color[b + 1], samples_per_pixel)

\* lines 372-447: the switch; then line 453 initialises the scanline loop
SelectScene ==
    /\ pcMain = "select_scene"
    /\ world' = SceneWorld(SceneSelector)
    /\ background' = SceneBackground(SceneSelector)
    /\ j' = image_height - 1
    /\ pcMain' = "scanline"
    /\ UNCHANGED <<todo, pc, pix, s, acc, k, m_lock, buffer, writers, oob,
                   png, rad>>
    /\ UNCHANGED <<rayVars, sampleVars>>

\* lines 453-456: the loop test; a scanline opens its parallel for
Scanline ==
    /\ pcMain = "scanline"
    /\ IF ScanlineLoopTest(j)
       THEN /\ todo' = Columns
            /\ pcMain' = "parallel"
       ELSE /\ todo' = todo
            /\ pcMain' = "encode"
    /\ UNCHANGED <<world, background, j, pc, pix, s, acc, k, m_lock, buffer,
                   writers, oob, png, rad>>
    /\ UNCHANGED <<rayVars, sampleVars>>

\* lines 456-457: thread t starts an iteration of the parallel for; which
\* thread gets which column is the runtime's choice
StartPixel(t) ==
    /\ pcMain = "parallel"
    /\ pc[t] = "idle"
    /\ \E i \in todo :
         /\ todo' = todo \ {i}
         /\ pix' = [pix EXCEPT ![t] = i]
    /\ acc' = [acc EXCEPT ![t] = NewPixelColor(acc[t])]
    /\ s' = [s EXCEPT ![t] = 0]
    /\ pc' = [pc EXCEPT ![t] = "sample"]
    /\ UNCHANGED <<pcMain, world, background, j, k, m_lock, buffer, writers,
                   oob, png, rad>>
    /\ UNCHANGED <<rayVars, sampleVars>>

\* lines 458-463: one sample; rad holds the value ray_color(r, background,
\* world, max_depth) returns for it
Sample(t) ==
    /\ pc[t] = "sample"
    /\ SampleLoopTest(s[t])
    /\ acc' = [acc EXCEPT ![t] = Accumulate(@, rad[<<pix[t], j, s[t]>>])]
    /\ s' = [s EXCEPT ![t] = @ + 1]
    /\ UNCHANGED <<pcMain, world, background, j, todo, pc, pix, k, m_lock,
                   buffer, writers, oob, png, rad>>
    /\ UNCHANGED <<rayVars, sampleVars>>

\* line 464: omp_set_lock(&m_lock), after the sample loop has ended
SetLock(t) ==
    /\ pc[t] = "sample"
    /\ ~SampleLoopTest(s[t])
    /\ CanAcquire(m_lock)
    /\ m_lock' = t
    /\ k' = [k EXCEPT ![t] = 0]
    /\ pc' = [pc EXCEPT ![t] = "write"]
    /\ UNCHANGED <<pcMain, world, background, j, todo, pix, s, acc, buffer,
                   writers, oob, png, rad>>
    /\ UNCHANGED <<rayVars, sampleVars>>

\* lines 465-468: one of the four stores; a store outside the buffer is
\* recorded in oob
WriteByte(t) ==
    /\ pc[t] = "write"
    /\ LET idx == BufferIndex(pix[t], j, k[t])
       IN IF idx \in 0 .. buffer_size - 1
          THEN /\ buffer' = [buffer EXCEPT ![idx] = ByteValue(acc[t], k[t])]
               /\ writers' = [writers EXCEPT ![idx] = Append(@, <<pix[t], j>>)]
               /\ oob' = oob
          ELSE /\ oob' = TRUE
               /\ UNCHANGED <<buffer, writers>>
    /\ IF k[t] = n - 1
       THEN /\ pc' = [pc EXCEPT ![t] = "unset_lock"]
            /\ k' = k
       ELSE /\ k' = [k EXCEPT ![t] = @ + 1]
            /\ pc' = pc
    /\ UNCHANGED <<pcMain, world, background, j, todo, pix, s, acc, m_lock,
                   png, rad>>
    /\ UNCHANGED <<rayVars, sampleVars>>

\* line 469: omp_unset_lock(&m_lock); the iteration ends
UnsetLock(t) ==
    /\ pc[t] = "unset_lock"
    /\ m_lock' = Unlocked
    /\ pc' = [pc EXCEPT ![t] = "idle"]
    /\ UNCHANGED <<pcMain, world, background, j, todo, pix, s, acc, k, buffer,
                   writers, oob, png, rad>>
    /\ UNCHANGED <<rayVars, sampleVars>>

\* line 470: the implicit barrier that ends the parallel for; --j
Join ==
    /\ pcMain = "parallel"
    /\ todo = {}
    /\ \A t \in Threads : pc[t] = "idle"
    /\ j' = j - 1
    /\ pcMain' = "scanline"
    /\ UNCHANGED <<world, background, todo, pc, pix, s, acc, k, m_lock,
                   buffer, writers, oob, png, rad>>
    /\ UNCHANGED <<rayVars, sampleVars>>

\* line 473: stbi_write_png is handed the buffer
Encode ==
    /\ pcMain = "encode"
    /\ png' = buffer
    /\ pcMain' = "encoded"
    /\ UNCHANGED <<world, background, j, todo, pc, pix, s, acc, k, m_lock,
                   buffer, writers, oob, rad>>
    /\ UNCHANGED <<rayVars, sampleVars>>

\* lines 474-476: the buffer and the lock are released, "Done." is printed
Finish ==
    /\ pcMain = "encoded"
    /\ pcMain' = "done"
    /\ UNCHANGED <<world, background, j, todo, pc, pix, s, acc, k, m_lock,
                   buffer, writers, oob, png, rad>>
    /\ UNCHANGED <<rayVars, sampleVars>>

----------------------------------------------------------------------------
(* The sample loop of one pixel, lines 457-463, with u and v as fractions. *)

\* lines 459-460: (p + random_double()) / (extent - 1), random_double()
\* being jit / JitterDen
Coordinate(p, jit, extent) ==
    [num |-> p * JitterDen + jit, den |-> (extent - 1) * JitterDen]

SmpSample ==
    /\ SampleLoopTest(smp.s)
    /\ \E ju, jv \in 0 .. JitterDen - 1 :
         smp' = [smp EXCEPT !.u = Coordinate(smp.i, ju, image_width),
                            !.v = Coordinate(smp.j, jv, image_height),
                            !.s = @ + 1,
                            !.taken = @ + 1]
    /\ UNCHANGED <<rayVars, renderVars>>

----------------------------------------------------------------------------
(* Initial states. *)

\* ray_color is not running
RayIdle ==
    /\ frames = <<>>
    /\ sp = 0

\* no sample loop is being followed
SampleIdle ==
    smp = [i |-> 0, j |-> 0, s |-> samples_per_pixel,
           u |-> Coordinate(0, 0, image_width),
           v |-> Coordinate(0, 0, image_height), taken |-> 0]

\* main after lines 347-370
RenderStart(tables) ==
    /\ pcMain = "select_scene"
    /\ world = EmptyWorld
    /\ background = Black
    /\ j = 0
    /\ todo = {}
    /\ pc = [t \in Threads |-> "idle"]
    /\ pix = [t \in Threads |-> 0]
    /\ s = [t \in Threads |-> 0]
    /\ acc = [t \in Threads |-> Black]
    /\ k = [t \in Threads |-> 0]
    /\ m_lock = Unlocked
    /\ buffer = [idx \in 0 .. buffer_size - 1 |-> Uninit]
    /\ writers = [idx \in 0 .. buffer_size - 1 |-> <<>>]
    /\ oob = FALSE
    /\ png = <<>>
    /\ rad \in tables

\* a call ray_color(r, background, world, depth)
RayInit ==
    /\ \E d \in (0 - 1) .. MaxDepth, bg \in Backgrounds, w \in Worlds :
         frames = <<NewFrame(0, bg, w, d)>>
    /\ sp = 1
    /\ SampleIdle
    /\ RenderStart({CHOOSE tb \in RadTables : TRUE})

SampleInit ==
    /\ \E i \in Columns, row \in Rows :
         smp = [i |-> i, j |-> row, s |-> 0,
                u |-> Coordinate(0, 0, image_width),
                v |-> Coordinate(0, 0, image_height), taken |-> 0]
    /\ RayIdle
    /\ RenderStart({CHOOSE tb \in RadTables : TRUE})

Init ==
    /\ RenderStart(RadTables)
    /\ RayIdle
    /\ SampleIdle

----------------------------------------------------------------------------
(* Specifications. *)

RayNext ==
    \/ RcDepthCheck
    \/ RcWorldHit
    \/ RcEmitted
    \/ RcScatter
    \/ RcRecurse
    \/ RcCombine

RaySpec == RayInit /\ [][RayNext]_vars

RayFairSpec == RaySpec /\ WF_vars(RayNext)

SampleNext == SmpSample

SampleSpec == SampleInit /\ [][SampleNext]_vars

ThreadStep(t) ==
    \/ StartPixel(t)
    \/ Sample(t)
    \/ SetLock(t)
    \/ WriteByte(t)
    \/ UnsetLock(t)

MainStep ==
    \/ SelectScene
    \/ Scanline
    \/ Join
    \/ Encode
    \/ Finish

Next ==
    \/ MainStep
    \/ \E t \in Threads : ThreadStep(t)

Spec == Init /\ [][Next]_vars

\* every thread of the team and the main thread keep being scheduled
FairSpec ==
    /\ Spec
    /\ WF_vars(MainStep)
    /\ \A t \in Threads : WF_vars(ThreadStep(t))

----------------------------------------------------------------------------
(* Properties of ray_color (RaySpec, RayFairSpec). *)

Levels == 1 .. Len(frames)

\* the call of record lvl made a recursive call (calls form a chain)
HasChild(lvl) == lvl < Len(frames)

Returned(lvl) == frames[lvl].pc = "returned"

\* C1: a call with depth <= 0 returns exactly black, and it queries neither
\* world.hit nor a material, nor does it recurse, before doing so.
C1_DepthExhaustedIsBlack ==
    \A lvl \in Levels :
        frames[lvl].depth <= 0 =>
            /\ frames[lvl].nHit = 0
            /\ frames[lvl].nEmitted = 0
            /\ frames[lvl].nScatter = 0
            /\ ~HasChild(lvl)
            /\ frames[lvl].pc \in {"depth_check", "returned"}
            /\ Returned(lvl) => frames[lvl].ret = Black

\* a top-level call with depth <= 0 over a non-empty world and a non-black
\* background has returned
C1_Witness ==
    /\ Len(frames) = 1
    /\ frames[1].depth <= 0
    /\ Returned(1)
    /\ frames[1].background # Black
    /\ WorldCanHit(frames[1].world)

\* C2: a call with depth > 0 whose hit query reports no hit (as it must in
\* an empty world) returns exactly its background, with no material
\* consulted and no recursive call.
C2_MissReturnsBackground ==
    \A lvl \in Levels :
        /\ ( /\ frames[lvl].depth > 0
             /\ frames[lvl].nHit > 0
             /\ ~frames[lvl].isHit )
           => /\ Returned(lvl)
              /\ frames[lvl].ret = frames[lvl].background
              /\ frames[lvl].nHit = 1
              /\ frames[lvl].nEmitted = 0
              /\ frames[lvl].nScatter = 0
              /\ ~HasChild(lvl)
        /\ ( /\ frames[lvl].depth > 0
             /\ ~WorldCanHit(frames[lvl].world)
             /\ Returned(lvl) )
           => frames[lvl].ret = frames[lvl].background

\* a nested call missed and returned a non-black background
C2_Witness ==
    \E lvl \in Levels :
        /\ lvl > 1
        /\ frames[lvl].depth > 0
        /\ frames[lvl].nHit = 1
        /\ ~frames[lvl].isHit
        /\ Returned(lvl)
        /\ frames[lvl].background # Black

\* C3: for depth > 0 and a hit, the result is emitted alone, with no
\* recursive call, if the material declines, and
\* emitted + attenuation * (result of the recursive call) if it scatters;
\* the recursive call gets the scattered ray, the same background, the same
\* world and a depth smaller by exactly one.
C3_HitResult ==
    \A lvl \in Levels :
        /\ ( /\ frames[lvl].depth > 0
             /\ frames[lvl].isHit
             /\ Returned(lvl) )
           => IF frames[lvl].didScatter
              THEN /\ HasChild(lvl)
                   /\ Returned(lvl + 1)
                   /\ frames[lvl].ret =
                        Add(frames[lvl].emitted,
                            Mul(frames[lvl].attenuation, frames[lvl + 1].ret))
              ELSE /\ ~HasChild(lvl)
                   /\ frames[lvl].ret = frames[lvl].emitted
        /\ HasChild(lvl)
           => /\ frames[lvl].depth > 0
              /\ frames[lvl].isHit
              /\ frames[lvl].didScatter
              /\ frames[lvl + 1].ray = frames[lvl].scattered
              /\ frames[lvl + 1].background = frames[lvl].background
              /\ frames[lvl + 1].world = frames[lvl].world
              /\ frames[lvl + 1].depth = frames[lvl].depth - 1

\* the top-level call scattered at an emitting surface and got a non-black
\* value back from its recursive call
C3_Witness ==
    /\ Len(frames) >= 2
    /\ Returned(1)
    /\ frames[1].didScatter
    /\ frames[1].emitted # Black
    /\ frames[1].attenuation # <<1, 1, 1>>
    /\ frames[2].ret # Black

RECURSIVE HitQueriesFrom(_)
\* world.hit queries made by the call of record lvl and the calls below it
HitQueriesFrom(lvl) ==
    IF lvl > Len(frames) THEN 0
    ELSE frames[lvl].nHit + HitQueriesFrom(lvl + 1)

RECURSIVE ScatterCallsFrom(_)
\* scatter calls made by the call of record lvl and the calls below it
ScatterCallsFrom(lvl) ==
    IF lvl > Len(frames) THEN 0
    ELSE frames[lvl].nScatter + ScatterCallsFrom(lvl + 1)

C9_Bounds ==
    \A lvl \in Levels :
        LET budget == Max(frames[lvl].depth, 0)
        IN /\ HitQueriesFrom(lvl) <= budget
           /\ ScatterCallsFrom(lvl) <= budget
           /\ Len(frames) - lvl <= budget
           /\ ( /\ Len(frames) - lvl = budget
                /\ Returned(Len(frames)) )
              => /\ frames[Len(frames)].depth <= 0
                 /\ frames[Len(frames)].ret = Black

\* C9: every call of ray_color terminates, whatever the depth and the
\* hit/miss and scatter/decline outcomes; a call with depth d makes at most
\* max(d, 0) hit queries and max(d, 0) scatter calls and nests at most
\* max(d, 0) recursive calls, and a chain that hits and scatters at every
\* bounce ends with black returned by the call of depth 0.
C9_TerminatesWithinBudget == []C9_Bounds /\ <>RayDone

\* a chain of MaxDepth bounces that all hit and scattered has ended
C9_Witness ==
    /\ RayDone
    /\ Len(frames) = MaxDepth + 1
    /\ frames[1].depth = MaxDepth
    /\ HitQueriesFrom(1) = MaxDepth
    /\ ScatterCallsFrom(1) = MaxDepth
    /\ frames[1].ret # Black

----------------------------------------------------------------------------
(* Properties of the render loop (Spec, FairSpec). *)

BufferIndices == 0 .. buffer_size - 1

\* the pixel whose four bytes include buffer byte idx (row-major RGBA)
OwnerOf(idx) == <<(idx \div n) % image_width, idx \div (n * image_width)>>

Holding(t) == pc[t] \in {"write", "unset_lock"}

\* C4: the indices of every pixel lie inside the buffer, the index sets of
\* two distinct pixels are disjoint, and every byte written so far was
\* written by the worker of the one pixel it belongs to; no store fell
\* outside the buffer, and two workers never work on the same pixel.
C4_WritesAreDisjoint ==
    /\ oob = FALSE
    /\ \A i \in Columns, row \in Rows, b \in 0 .. n - 1 :
          \* inside the buffer; and since the pixel and the byte can be read
          \* back from the index, no other pixel and no other byte has it
          /\ BufferIndex(i, row, b) \in BufferIndices
          /\ OwnerOf(BufferIndex(i, row, b)) = <<i, row>>
          /\ BufferIndex(i, row, b) % n = b
    /\ \A idx \in BufferIndices :
          \A w \in 1 .. Len(writers[idx]) : writers[idx][w] = OwnerOf(idx)
    /\ \A t1, t2 \in Threads :
          (t1 # t2 /\ pc[t1] # "idle" /\ pc[t2] # "idle") => pix[t1] # pix[t2]

\* a worker is in the middle of its stores while the bytes of another pixel
\* of the same scanline are already in the buffer
C4_Witness ==
    \E t \in Threads :
        /\ pc[t] = "write"
        /\ k[t] = 2
        /\ \E i \in Columns :
              /\ i # pix[t]
              /\ \A b \in 0 .. n - 1 : Len(writers[BufferIndex(i, j, b)]) = 1

RECURSIVE SumOfSamples(_, _, _)
\* the sum of the first cnt sampled radiance values of pixel (i, row)
SumOfSamples(i, row, cnt) ==
    IF cnt = 0 THEN Black
    ELSE Add(SumOfSamples(i, row, cnt - 1), rad[<<i, row, cnt - 1>>])

\* the byte the sampled radiance values alone determine for buffer byte idx
ExpectedByte(idx) ==
    LET own == OwnerOf(idx)
        b == idx % n
    IN IF b = 3 THEN 255
       ELSE convert(SumOfSamples(own[1], own[2], samples_per_pixel)[b + 1],
                    samples_per_pixel)

\* C5: with the sampled radiance values fixed, the buffer handed to the
\* encoder is the same for every interleaving and every assignment of
\* pixels to workers: each byte is the one its own pixel's samples determine.
C5_OutputIsOrderIndependent ==
    pcMain \in {"encoded", "done"} =>
        png = [idx \in BufferIndices |-> ExpectedByte(idx)]

\* the encoder was handed a buffer in which some channel is neither 0 nor
\* 255 and two pixels differ in their first channel
C5_Witness ==
    /\ pcMain = "encoded"
    /\ \E idx \in BufferIndices : png[idx] \notin {0, 255}
    /\ \E i1, i2 \in Columns, row \in Rows :
          png[BufferIndex(i1, row, 0)] # png[BufferIndex(i2, row, 0)]

C6_Exclusion ==
    /\ Cardinality({t \in Threads : Holding(t)}) <= 1
    /\ \A t \in Threads : Holding(t) <=> m_lock = t
    /\ \A t \in Threads :
          /\ pc[t] = "write" =>
                \A b \in 0 .. n - 1 :
                   Len(writers[BufferIndex(pix[t], j, b)]) =
                      (IF b < k[t] THEN 1 ELSE 0)
          /\ pc[t] = "unset_lock" =>
                \A b \in 0 .. n - 1 :
                   Len(writers[BufferIndex(pix[t], j, b)]) = 1
    /\ \A idx \in BufferIndices :
          \* a pixel with some but not all of its bytes stored is the pixel
          \* of the lock's holder
          ( /\ Len(writers[idx]) > 0
            /\ \E b \in 0 .. n - 1 :
                  Len(writers[BufferIndex(OwnerOf(idx)[1], OwnerOf(idx)[2], b)]) = 0 )
          => /\ m_lock \in Threads
             /\ <<pix[m_lock], j>> = OwnerOf(idx)

\* a store happens only in a step of the lock's holder, which keeps the lock
C6_StoresUnderLock ==
    (writers' # writers) =>
        /\ m_lock \in Threads
        /\ m_lock' = m_lock
        /\ pc[m_lock] = "write"

\* the lock passes from a holder to nobody, never to another thread
C6_ReleasedByHolder ==
    (m_lock \in Threads) => m_lock' \in {m_lock, Unlocked}

\* the holder of the lock is never blocked, and no hold outlives the
\* parallel for in which it began
C6_HoldEnds ==
    /\ \A t \in Threads : m_lock = t => ENABLED (WriteByte(t) \/ UnsetLock(t))
    /\ pcMain # "parallel" => m_lock = Unlocked

\* C6: at most one worker is between omp_set_lock and omp_unset_lock; the
\* four stores of a pixel happen inside one hold of the lock; the lock is
\* held only for the stores, never while sampling; every acquisition is
\* followed by a release by the same worker.
C6_WritesAreMutuallyExclusive ==
    /\ []C6_Exclusion
    /\ []C6_HoldEnds
    /\ [][C6_StoresUnderLock]_vars
    /\ [][C6_ReleasedByHolder]_vars

\* a worker holds the lock in the middle of its stores while another one has
\* finished sampling and waits in omp_set_lock
C6_Witness ==
    \E t1, t2 \in Threads :
        /\ t1 # t2
        /\ m_lock = t1
        /\ pc[t1] = "write"
        /\ k[t1] = 2
        /\ pc[t2] = "sample"
        /\ ~SampleLoopTest(s[t2])

\* the hittable is one bvh_node root over the scene's geometries
IsBvhRoot(w) ==
    \/ w.kind = "bvh_node"
    \/ /\ w.kind = "hittable_list"
       /\ Len(w.objects) = 1
       /\ w.objects[1] = "bvh_node"

\* C7: the world the render loop passes to ray_color is a single bvh_node
\* root built from the assembled collection, not a plain hittable_list.
C7_WorldIsBvhRoot ==
    pcMain \in {"scanline", "parallel", "encode", "encoded", "done"}
        => IsBvhRoot(world)

C8_AtEncoder ==
    pcMain \in {"encode", "encoded", "done"} =>
        /\ \A idx \in BufferIndices :
              /\ Len(writers[idx]) = 1
              /\ buffer[idx] \in 0 .. 255
        /\ \A i \in Columns, row \in Rows : buffer[BufferIndex(i, row, 3)] = 255
        /\ pcMain # "encode" => png = buffer

\* C8: under fair scheduling the render reaches the encoder call and then
\* "Done"; when the encoder is called every pixel has had its four bytes
\* written exactly once and its alpha byte is 255.
C8_RendersToCompletion ==
    /\ <>(pcMain = "done")
    /\ []C8_AtEncoder

\* the encoder has been called with a fully written buffer
C8_Witness ==
    /\ pcMain = "encoded"
    /\ \A idx \in BufferIndices : Len(writers[idx]) = 1
    /\ png[BufferIndex(image_width - 1, image_height - 1, 3)] = 255

----------------------------------------------------------------------------
(* Properties of the sample loop (SampleSpec). *)

\* the fraction lies in [0, 1]
InUnitInterval(f) == f.den > 0 /\ 0 <= f.num /\ f.num <= f.den

\* C10: every (u, v) given to cam.get_ray lies in [0,1] x [0,1], also for
\* the last column and the last row, and exactly samples_per_pixel samples
\* are taken per pixel.
C10_SamplesInUnitSquare ==
    /\ smp.taken > 0 => InUnitInterval(smp.u) /\ InUnitInterval(smp.v)
    /\ ~SampleLoopTest(smp.s) => smp.taken = samples_per_pixel

====
